---- MODULE Spec2Model ----
(***************************************************************************)
(* A model of github.com/philpearl/stringbank: the heap-backed Stringbank  *)
(* (stringbank.go) and the OS-mapped offheap Stringbank (offheap), with    *)
(* the length codec both share.                                            *)
(*                                                                         *)
(* A byte slice is modelled by its length and capacity; the bytes live in  *)
(* the page of `allocations` the slice aliases (s.current always aliases   *)
(* the last page appended).  A page is a tuple of stringbankSize bytes,    *)
(* byte offset o being element o + 1.                                      *)
(***************************************************************************)
EXTENDS Integers, Sequences, FiniteSets, TLC

\* The page size.  The source sets 1 << 18; the model scales it down so that
\* pages fill within a few saves.  The code only divides, multiplies and
\* compares with it.
stringbankSize == 256

\* Saves and closes in one behaviour.
MaxOps == 4

\* The largest length the codec is exercised on is 2^MaxLenBits - 1.
MaxLenBits == 29

---------------------------------------------------------------------------
(* Integer helpers: Go's operators on int.                                 *)

RECURSIVE Pow2(_)
Pow2(k) == IF k = 0 THEN 1 ELSE 2 * Pow2(k - 1)

\* math/bits.Len: the number of bits needed to represent x, 0 for x = 0.
RECURSIVE BitsLen(_)
BitsLen(x) == IF x = 0 THEN 0 ELSE 1 + BitsLen(x \div 2)

\* Go's / and % truncate toward zero.
GoDiv(a, b) == IF a >= 0 THEN a \div b ELSE -((-a) \div b)
GoMod(a, b) == IF a >= 0 THEN a % b ELSE -((-a) % b)

Min(a, b) == IF a <= b THEN a ELSE b

---------------------------------------------------------------------------
(* The length codec (identical in both packages but for readLength's       *)
(* overrun panic).                                                         *)

spaceForLength(len) == (BitsLen(len) + 6) \div 7

\* The bytes writeLength stores in buf[0], buf[1], ... : the loop runs while
\* remainder # 0.
RECURSIVE LengthBytes(_)
LengthBytes(remainder) ==
    IF remainder = 0 THEN << >>
    ELSE LET val  == remainder % 128
             rest == remainder \div 128
         IN  <<IF rest # 0 THEN val + 128 ELSE val>> \o LengthBytes(rest)

\* writeLength(len, buf): buf is a slice of bufLen bytes.  Returns the bytes
\* stored, the count i returned, and whether buf[i] = val went out of range.
writeLength(len, bufLen) ==
    LET bs == LengthBytes(len)
    IN  IF Len(bs) > bufLen
        THEN [panic |-> TRUE,  bytes |-> SubSeq(bs, 1, bufLen), n |-> bufLen]
        ELSE [panic |-> FALSE, bytes |-> bs, n |-> Len(bs)]

\* readLength(buf): sums (val & 0x7F) << (7 * i) until a byte without the high
\* bit.  Reading past the end of buf panics (index out of range in the heap
\* package, "read length overrun" in offheap).  A shift the model's integers
\* cannot hold is reported as wide.
RECURSIVE readLengthFrom(_, _, _)
readLengthFrom(buf, i, total) ==
    IF i >= Len(buf)
    THEN [panic |-> TRUE, wide |-> FALSE, total |-> total, n |-> i]
    ELSE LET val == buf[i + 1]
             low == val % 128
         IN  IF low # 0 /\ (i > 4 \/ (i = 4 /\ low > 7))
             THEN [panic |-> FALSE, wide |-> TRUE, total |-> total, n |-> i + 1]
             ELSE LET t == total + (IF low = 0 THEN 0 ELSE low * Pow2(7 * i))
                  IN  IF val < 128
                      THEN [panic |-> FALSE, wide |-> FALSE, total |-> t, n |-> i + 1]
                      ELSE readLengthFrom(buf, i + 1, t)

readLength(buf) == readLengthFrom(buf, 0, 0)

---------------------------------------------------------------------------
(* Slices, pages and strings.                                              *)

\* The nil slice: length 0, capacity 0.
NilSlice == [len |-> 0, cap |-> 0]

\* A fresh page: make([]byte, 0, stringbankSize) and an anonymous mapping are
\* both zero-filled.
ZeroPage == [i \in 1..stringbankSize |-> 0]

\* The struct Stringbank{current, allocations} of either package.
EmptyBank == [current |-> NilSlice, allocations |-> << >>]

\* The page with bytes stored from byte offset off on.
WritePage(page, off, bytes) ==
    SubSeq(page, 1, off) \o bytes \o SubSeq(page, off + Len(bytes) + 1, stringbankSize)

\* The bank with bytes stored at offset off of the page s.current aliases (the
\* last one).
WriteCurrent(bank, off, bytes) ==
    IF Len(bytes) = 0 THEN bank
    ELSE LET p == Len(bank.allocations)
         IN  [bank EXCEPT !.allocations[p] = WritePage(@, off, bytes)]

\* copy(dst, src) copies min(len(dst), len(src)) bytes.
CopyBytes(dstLen, src) == SubSeq(src, 1, Min(IF dstLen < 0 THEN 0 ELSE dstLen, Len(src)))

\* The result of a Save: what the caller receives (result "ok" with the index,
\* a "panic", or a "fault" of the process) and the bank the call leaves.
SaveResult(bank, result, index, grew) ==
    [bank |-> bank, result |-> result, index |-> index, grew |-> grew]

\* The result of a Get.
GetResult(result, str) == [result |-> result, str |-> str]

---------------------------------------------------------------------------
(* Package stringbank (heap-backed).                                       *)

Size(bank) == Len(bank.allocations) * stringbankSize

\* reserve as it would be if it computed the index from the cursor after
\* extending it.
reserve_IndexAfterExtend(bank, l) ==
    LET grow   == bank.current.len + l > bank.current.cap
        cur    == IF grow THEN [len |-> 0, cap |-> stringbankSize] ELSE bank.current
        allocs == IF grow THEN Append(bank.allocations, ZeroPage) ELSE bank.allocations
        offset == cur.len
    IN  IF offset + l > cur.cap
        THEN [panic |-> TRUE, grew |-> grow, offset |-> offset, index |-> 0, len |-> 0,
              bank |-> [current |-> cur, allocations |-> allocs]]
        ELSE [panic |-> FALSE, grew |-> grow, offset |-> offset,
              index |-> (Len(allocs) - 1) * stringbankSize + offset + l, len |-> l,
              bank |-> [current |-> [cur EXCEPT !.len = offset + l], allocations |-> allocs]]

\* reserve(l): a new page when len(s.current) + l > cap(s.current); the
\* reslice s.current[:offset+l] panics beyond the capacity.
reserve(bank, l) ==
    LET grow   == bank.current.len + l > bank.current.cap
        cur    == IF grow THEN [len |-> 0, cap |-> stringbankSize] ELSE bank.current
        allocs == IF grow THEN Append(bank.allocations, ZeroPage) ELSE bank.allocations
        offset == cur.len
    IN  IF offset + l > cur.cap
        THEN [panic |-> TRUE, grew |-> grow, offset |-> offset, index |-> 0, len |-> 0,
              bank |-> [current |-> cur, allocations |-> allocs]]
        ELSE [panic |-> FALSE, grew |-> grow, offset |-> offset,
              index |-> (Len(allocs) - 1) * stringbankSize + offset, len |-> l,
              bank |-> [current |-> [cur EXCEPT !.len = offset + l], allocations |-> allocs]]

\* Save(tocopy): reserve l + spaceForLength(l) bytes, write the length, copy
\* the data after it.
Save(bank, tocopy) ==
    LET l == Len(tocopy)
        r == reserve(bank, l + spaceForLength(l))
    IN  IF r.panic THEN SaveResult(r.bank, "panic", 0, r.grew)
        ELSE LET w == writeLength(l, r.len)
                 b1 == WriteCurrent(r.bank, r.offset, w.bytes)
             IN  IF w.panic THEN SaveResult(b1, "panic", 0, r.grew)
                 ELSE SaveResult(
                        WriteCurrent(b1, r.offset + w.n, CopyBytes(r.len - w.n, tocopy)),
                        "ok", r.index, r.grew)

\* The tail of Get shared by both packages: l, llen := readLength(data[offset:])
\* and the slice data[offset+llen : offset+llen+l].
GetRecord(data, offset) ==
    LET rl == readLength(SubSeq(data, offset + 1, stringbankSize))
    IN  IF rl.panic \/ rl.wide THEN GetResult("panic", << >>)
        ELSE IF offset + rl.n + rl.total > stringbankSize THEN GetResult("panic", << >>)
        ELSE GetResult("ok", SubSeq(data, offset + rl.n + 1, offset + rl.n + rl.total))

\* Get as it would be if it took the record to start at the page's first byte.
Get_IgnoresOffset(bank, index) ==
    LET p == GoDiv(index, stringbankSize)
    IN  IF p < 0 \/ p >= Len(bank.allocations)
        THEN GetResult("panic", << >>)
        ELSE GetRecord(bank.allocations[p + 1], 0)

\* Get(index): page index / stringbankSize, offset index % stringbankSize.
\* Indexing s.allocations or slicing data out of range panics.
Get(bank, index) ==
    LET p      == GoDiv(index, stringbankSize)
        offset == GoMod(index, stringbankSize)
    IN  IF p < 0 \/ p >= Len(bank.allocations) \/ offset < 0
        THEN GetResult("panic", << >>)
        ELSE GetRecord(bank.allocations[p + 1], offset)

---------------------------------------------------------------------------
(* Package offheap (OS-mapped).                                            *)

\* What the page allocation returns: "ok" a zero-filled mapping; on a failed
\* mmap either the nil slice ("nil") or, as alloc builds it, a header whose Cap
\* is the size asked for and whose Data is not a mapping ("dangling").
AllocOutcomes == {"ok", "nil", "dangling"}

offheap_Size(bank) == Len(bank.allocations) * stringbankSize

\* reserve(l): slice, _ := mmap.Alloc(...) drops the error.  With a nil slice
\* s.current[0:stringbankSize] panics after s.current was replaced.
offheap_reserve(bank, l, alloc) ==
    LET grow == bank.current.len + l > bank.current.cap
    IN  IF grow /\ alloc = "nil"
        THEN [panic |-> TRUE, grew |-> FALSE, failed |-> TRUE, offset |-> 0, index |-> 0,
              len |-> 0, bank |-> [bank EXCEPT !.current = NilSlice]]
        ELSE
    LET cur    == IF grow THEN [len |-> 0, cap |-> stringbankSize] ELSE bank.current
        allocs == IF grow THEN Append(bank.allocations, ZeroPage) ELSE bank.allocations
        offset == cur.len
        failed == grow /\ alloc # "ok"
    IN  IF offset + l > cur.cap
        THEN [panic |-> TRUE, grew |-> grow, failed |-> failed, offset |-> offset,
              index |-> 0, len |-> 0, bank |-> [current |-> cur, allocations |-> allocs]]
        ELSE [panic |-> FALSE, grew |-> grow, failed |-> failed, offset |-> offset,
              index |-> (Len(allocs) - 1) * stringbankSize + offset, len |-> l,
              bank |-> [current |-> [cur EXCEPT !.len = offset + l], allocations |-> allocs]]

\* The result of an offheap Save also says whether its allocation failed.
OffheapSaveResult(bank, result, index, grew, failed) ==
    [bank |-> bank, result |-> result, index |-> index, grew |-> grew, failed |-> failed]

\* Save(tocopy): the fast track for l <= 0x7F stores byte(l) in buf[0]; longer
\* strings go through spaceForLength and writeLength.  live[p] says whether
\* page p is a mapping: a store into a page that is none faults.
offheap_Save(bank, live, tocopy, alloc) ==
    LET l    == Len(tocopy)
        fast == l <= 127
        r    == offheap_reserve(bank, IF fast THEN l + 1 ELSE l + spaceForLength(l), alloc)
    IN  IF r.panic THEN OffheapSaveResult(r.bank, "panic", 0, r.grew, r.failed)
        ELSE IF (IF r.grew THEN r.failed ELSE ~live[Len(bank.allocations)])
        THEN OffheapSaveResult(r.bank, "fault", 0, r.grew, r.failed)
        ELSE LET w  == IF fast THEN [panic |-> FALSE, bytes |-> <<l>>, n |-> 1]
                       ELSE writeLength(l, r.len)
                 b1 == WriteCurrent(r.bank, r.offset, w.bytes)
             IN  IF w.panic THEN OffheapSaveResult(b1, "panic", 0, r.grew, FALSE)
                 ELSE OffheapSaveResult(
                        WriteCurrent(b1, r.offset + w.n, CopyBytes(r.len - w.n, tocopy)),
                        "ok", r.index, r.grew, FALSE)

\* Get(index): a first byte without the high bit is the length itself;
\* otherwise readLength.  live[p] says whether page p is still a mapping: a
\* read of an unmapped page faults.
offheap_Get(bank, live, index) ==
    LET p      == GoDiv(index, stringbankSize)
        offset == GoMod(index, stringbankSize)
    IN  IF p < 0 \/ p >= Len(bank.allocations) \/ offset < 0
        THEN GetResult("panic", << >>)
        ELSE IF ~live[p + 1] THEN GetResult("fault", << >>)
        ELSE LET data == bank.allocations[p + 1]
                 l    == data[offset + 1]
             IN  IF l < 128
                 THEN IF offset + 1 + l > stringbankSize THEN GetResult("panic", << >>)
                      ELSE GetResult("ok", SubSeq(data, offset + 2, offset + 1 + l))
                 ELSE GetRecord(data, offset)

\* Close as it would be with s.current = nil left out.
Close_KeepsCurrent(bank, failAt) ==
    LET n == Len(bank.allocations)
    IN  IF failAt < n
        THEN [bank |-> bank, err |-> TRUE, freed |-> [i \in 1..(failAt + 1) |-> i]]
        ELSE [bank |-> [bank EXCEPT !.allocations = << >>], err |-> FALSE,
              freed |-> [i \in 1..n |-> i]]

\* Close as it would be if it cleared the fields before returning the error.
Close_ClearsOnError(bank, failAt) ==
    LET n == Len(bank.allocations)
    IN  IF failAt < n
        THEN [bank |-> EmptyBank, err |-> TRUE, freed |-> [i \in 1..(failAt + 1) |-> i]]
        ELSE [bank |-> EmptyBank, err |-> FALSE, freed |-> [i \in 1..n |-> i]]

\* Close(): mmap.Free on each allocation in order, returning the first error;
\* the fields are cleared only after the loop.  failAt is the index of the
\* page whose Free fails (len(s.allocations) and more: none does).  freed
\* lists the page indices handed to Free, in order.
Close(bank, failAt) ==
    LET n == Len(bank.allocations)
    IN  IF failAt < n
        THEN [bank |-> bank, err |-> TRUE, freed |-> [i \in 1..(failAt + 1) |-> i]]
        ELSE [bank |-> EmptyBank, err |-> FALSE, freed |-> [i \in 1..n |-> i]]

---------------------------------------------------------------------------
(* The state machine: one Stringbank of either package, its caller's       *)
(* calls, and the operating system's mappings.                             *)

VARIABLES
    variant,    \* "heap": package stringbank; "offheap": package offheap
    bank,       \* the Stringbank struct: current, allocations
    ids,        \* offheap: the mapping each page of allocations came from
    mapped,     \* offheap: the mappings that exist
    nextId,     \* the mappings made so far
    freeLog,    \* offheap: every call of Free so far: the mapping and its error
    issued,     \* the strings saved, the indices returned and the bytes taken since the bank
                \* was constructed or last closed without error
    clean,      \* every Save since then returned an index and no Close failed
    last,       \* the last Save or Close: its argument and what it returned
    got,        \* the last Get since: its index and what it returned
    nops,       \* the Saves and Closes so far
    crashed,    \* the process took a fault
    codec,      \* the length codec's harness: n, the buffer, the results
    conc        \* two goroutines saving into one heap-backed bank, step by step

vars == <<variant, bank, ids, mapped, nextId, freeLog, issued, clean, last, got,
          nops, crashed, codec, conc>>

bankVars == <<variant, bank, ids, mapped, nextId, freeLog, issued, clean, last, got,
              nops, crashed>>

\* The string of n bytes c, c+1, ... (mod 256).
Str(n, c) == [i \in 1..n |-> (c + i - 1) % 256]

\* The strings saved: the empty one, a short one, one at each side of the
\* one-byte length limit 0x7F, one whose record fills a page exactly and one
\* whose record is a byte too long for a page.
Strings ==
    { Str(0, 0), Str(3, 200), Str(127, 97), Str(128, 120),
      Str(stringbankSize - 2, 33), Str(stringbankSize - 1, 48) }

NoOp   == [op |-> "New", str |-> << >>, index |-> 0, result |-> "ok",
           grew |-> FALSE, failed |-> FALSE, freed |-> << >>]
NoGet  == [called |-> FALSE, index |-> 0, result |-> "ok", str |-> << >>]
NoConc == [mode |-> "off"]
NoCodec == [phase |-> "off", n |-> 0, fill |-> 0, buf |-> << >>, written |-> 0,
            total |-> 0, read |-> 0]

BankInit ==
    /\ variant \in {"heap", "offheap"}
    /\ bank = EmptyBank
    /\ ids = << >>
    /\ mapped = {}
    /\ nextId = 0
    /\ freeLog = << >>
    /\ issued = << >>
    /\ clean = TRUE
    /\ last = NoOp
    /\ got = NoGet
    /\ nops = 0
    /\ crashed = FALSE

Init == BankInit /\ codec = NoCodec /\ conc = NoConc

\* Which pages of allocations are still mappings.
Live == [p \in 1..Len(ids) |-> ids[p] \in mapped]

\* The bytes of the current page a Save took: how far it moved the cursor,
\* from 0 in a page it added.
Consumed(before, r) ==
    r.bank.current.len - (IF r.grew THEN 0 ELSE before.current.len)

\* A caller of package stringbank saves s.
DoSave(s) ==
    /\ variant = "heap" /\ ~crashed /\ nops < MaxOps
    /\ LET r == Save(bank, s)
       IN  /\ bank' = r.bank
           /\ last' = [op |-> "Save", str |-> s, index |-> r.index, result |-> r.result,
                       grew |-> r.grew, failed |-> FALSE, freed |-> << >>]
           /\ issued' = IF r.result = "ok"
                        THEN Append(issued, [str |-> s, index |-> r.index,
                                             size |-> Consumed(bank, r)])
                        ELSE issued
           /\ clean' = (clean /\ r.result = "ok")
    /\ got' = NoGet
    /\ nops' = nops + 1
    /\ UNCHANGED <<variant, ids, mapped, nextId, freeLog, crashed, codec, conc>>

\* A caller of package offheap saves s; alloc is what the page allocation
\* returns if the save makes one.
DoOffheapSave(s, alloc) ==
    /\ variant = "offheap" /\ ~crashed /\ nops < MaxOps
    /\ LET r == offheap_Save(bank, Live, s, alloc)
       IN  /\ bank' = r.bank
           /\ last' = [op |-> "Save", str |-> s, index |-> r.index, result |-> r.result,
                       grew |-> r.grew, failed |-> r.failed, freed |-> << >>]
           /\ issued' = IF r.result = "ok"
                        THEN Append(issued, [str |-> s, index |-> r.index,
                                             size |-> Consumed(bank, r)])
                        ELSE issued
           /\ ids' = IF r.grew THEN Append(ids, IF r.failed THEN 0 ELSE nextId + 1)
                     ELSE ids
           /\ mapped' = IF r.grew /\ ~r.failed THEN mapped \cup {nextId + 1} ELSE mapped
           /\ nextId' = IF r.grew /\ ~r.failed THEN nextId + 1 ELSE nextId
           /\ clean' = (clean /\ r.result = "ok")
           /\ crashed' = (r.result = "fault")
    /\ got' = NoGet
    /\ nops' = nops + 1
    /\ UNCHANGED <<variant, freeLog, codec, conc>>

\* A caller of package offheap closes the bank; the Free of page failAt fails.
DoClose(failAt) ==
    /\ variant = "offheap" /\ ~crashed /\ nops < MaxOps
    /\ LET r == Close(bank, failAt)
           n == Len(r.freed)
           called == [i \in 1..n |-> [id |-> ids[r.freed[i]], err |-> r.err /\ i = n]]
       IN  /\ bank' = r.bank
           /\ ids' = IF Len(r.bank.allocations) = 0 THEN << >> ELSE ids
           /\ mapped' = mapped \ {called[i].id : i \in {j \in 1..n : ~called[j].err}}
           /\ freeLog' = freeLog \o called
           /\ last' = [op |-> "Close", str |-> << >>, index |-> 0,
                       result |-> IF r.err THEN "error" ELSE "ok",
                       grew |-> FALSE, failed |-> FALSE, freed |-> r.freed]
           /\ issued' = IF r.err THEN issued ELSE << >>
           /\ clean' = ~r.err
    /\ got' = NoGet
    /\ nops' = nops + 1
    /\ UNCHANGED <<variant, nextId, crashed, codec, conc>>

\* A caller reads back an index it was given.
DoGet(h) ==
    /\ variant = "heap" /\ ~crashed
    /\ LET r == Get(bank, h)
       IN  got' = [called |-> TRUE, index |-> h, result |-> r.result, str |-> r.str]
    /\ UNCHANGED <<variant, bank, ids, mapped, nextId, freeLog, issued, clean, last,
                   nops, crashed, codec, conc>>

DoOffheapGet(h) ==
    /\ variant = "offheap" /\ ~crashed
    /\ LET r == offheap_Get(bank, Live, h)
       IN  got' = [called |-> TRUE, index |-> h, result |-> r.result, str |-> r.str]
    /\ UNCHANGED <<variant, bank, ids, mapped, nextId, freeLog, issued, clean, last,
                   nops, crashed, codec, conc>>

Indices == {issued[i].index : i \in 1..Len(issued)}

Next ==
    \/ \E s \in Strings : DoSave(s)
    \/ \E s \in Strings, a \in AllocOutcomes : DoOffheapSave(s, a)
    \/ \E k \in 0..Len(bank.allocations) : DoClose(k)
    \/ \E h \in Indices : DoGet(h)
    \/ \E h \in Indices : DoOffheapGet(h)

Spec == Init /\ [][Next]_vars

---------------------------------------------------------------------------
(* The length codec on its own, driven as TestLengths drives it: a zeroed  *)
(* buffer, writeLength and spaceForLength, then readLength.                *)

\* make([]byte, 10)
CodecBufLen == 10

\* The lengths tried: every small one, and each power of two up to
\* 2^MaxLenBits with its neighbours.
CodecInputs ==
    0..300 \cup UNION {{Pow2(k) - 1, Pow2(k), Pow2(k) + 1} : k \in 1..MaxLenBits}

\* What the buffer holds before the call: zeroes as make leaves it, or 0xFF
\* in every byte.
CodecFill == {0, 255}

CodecInit ==
    /\ BankInit
    /\ variant = "heap"
    /\ conc = NoConc
    /\ \E n \in CodecInputs, fill \in CodecFill :
         codec = [phase |-> "new", n |-> n, fill |-> fill,
                  buf |-> [i \in 1..CodecBufLen |-> fill],
                  written |-> 0, total |-> 0, read |-> 0]

\* l := writeLength(test.len, buf)
CodecWrite ==
    /\ codec.phase = "new"
    /\ LET w == writeLength(codec.n, Len(codec.buf))
       IN  /\ ~w.panic
           /\ codec' = [codec EXCEPT !.phase = "written", !.written = w.n,
                          !.buf = w.bytes \o SubSeq(codec.buf, w.n + 1, Len(codec.buf))]
    /\ UNCHANGED <<bankVars, conc>>

\* len, lenlen := readLength(buf)
CodecRead ==
    /\ codec.phase = "written"
    /\ LET r == readLength(codec.buf)
       IN  /\ ~r.panic /\ ~r.wide
           /\ codec' = [codec EXCEPT !.phase = "read", !.total = r.total, !.read = r.n]
    /\ UNCHANGED <<bankVars, conc>>

CodecNext == CodecWrite \/ CodecRead

CodecSpec == CodecInit /\ [][CodecNext]_vars

---------------------------------------------------------------------------
(* Two goroutines calling Save on one heap-backed Stringbank, one source   *)
(* statement at a time.  Each make([]byte, 0, stringbankSize) is an array  *)
(* of its own: conc.arrays holds the arrays' bytes, and s.current and the  *)
(* entries of s.allocations name the array they alias.  With mode "locked" *)
(* the callers hold a mutex around Save.                                   *)

Goroutines == {1, 2}

\* The strings the two goroutines save.
ConcStrings ==
    { Str(0, 0), Str(3, 200), Str(127, 97), Str(128, 120), Str(stringbankSize - 2, 33) }

\* A goroutine about to call Save(str).
ConcThread(mode, str) ==
    [pc |-> IF mode = "locked" THEN "lock" ELSE "check", str |-> str, l |-> 0,
     offset |-> 0, index |-> 0, buf |-> [arr |-> 0, off |-> 0, len |-> 0], start |-> 0]

\* The bank before the two calls: new, or holding one record already.
ConcBanks ==
    { [arrays |-> << >>, current |-> [arr |-> 0, len |-> 0, cap |-> 0],
       allocations |-> << >>],
      LET b == Save(EmptyBank, Str(3, 200)).bank
      IN  [arrays |-> b.allocations,
           current |-> [arr |-> 1, len |-> b.current.len, cap |-> b.current.cap],
           allocations |-> <<1>>] }

ConcInit ==
    /\ BankInit
    /\ variant = "heap"
    /\ codec = NoCodec
    /\ \E mode \in {"race", "locked"}, b \in ConcBanks, s1 \in ConcStrings, s2 \in ConcStrings :
         conc = [mode |-> mode, lock |-> 0, arrays |-> b.arrays, current |-> b.current,
                 allocations |-> b.allocations,
                 th |-> [g \in Goroutines |-> ConcThread(mode, IF g = 1 THEN s1 ELSE s2)]]

ConcAt(g, pc) == conc.mode # "off" /\ conc.th[g].pc = pc

\* The caller takes the mutex.
ConcLock(g) ==
    /\ ConcAt(g, "lock") /\ conc.lock = 0
    /\ conc' = [conc EXCEPT !.lock = g, !.th[g].pc = "check"]
    /\ UNCHANGED <<bankVars, codec>>

\* Save: l := len(tocopy); reserve(l + spaceForLength(l));
\* reserve: if len(s.current)+l > cap(s.current)
ConcCheck(g) ==
    /\ ConcAt(g, "check")
    /\ LET n == Len(conc.th[g].str)
           l == n + spaceForLength(n)
       IN  conc' = [conc EXCEPT !.th[g].l = l,
                      !.th[g].pc = IF conc.current.len + l > conc.current.cap
                                   THEN "make" ELSE "offset"]
    /\ UNCHANGED <<bankVars, codec>>

\* s.current = make([]byte, 0, stringbankSize)
ConcMake(g) ==
    /\ ConcAt(g, "make")
    /\ conc' = [conc EXCEPT !.arrays = Append(@, ZeroPage),
                  !.current = [arr |-> Len(conc.arrays) + 1, len |-> 0,
                               cap |-> stringbankSize],
                  !.th[g].pc = "append"]
    /\ UNCHANGED <<bankVars, codec>>

\* s.allocations = append(s.allocations, s.current[0:stringbankSize])
ConcAppend(g) ==
    /\ ConcAt(g, "append")
    /\ conc' = [conc EXCEPT !.allocations = Append(@, conc.current.arr),
                  !.th[g].pc = "offset"]
    /\ UNCHANGED <<bankVars, codec>>

\* offset := len(s.current)
ConcOffset(g) ==
    /\ ConcAt(g, "offset")
    /\ conc' = [conc EXCEPT !.th[g].offset = conc.current.len, !.th[g].pc = "extend"]
    /\ UNCHANGED <<bankVars, codec>>

\* s.current = s.current[:offset+l], which panics beyond the capacity
ConcExtend(g) ==
    /\ ConcAt(g, "extend")
    /\ LET hi == conc.th[g].offset + conc.th[g].l
       IN  IF hi > conc.current.cap
           THEN conc' = [conc EXCEPT !.th[g].pc = "panicked"]
           ELSE conc' = [conc EXCEPT !.current.len = hi, !.th[g].pc = "return"]
    /\ UNCHANGED <<bankVars, codec>>

\* return (len(s.allocations)-1)*stringbankSize + offset, s.current[offset:]
ConcReturn(g) ==
    /\ ConcAt(g, "return")
    /\ LET offset == conc.th[g].offset
       IN  IF offset > conc.current.len
           THEN conc' = [conc EXCEPT !.th[g].pc = "panicked"]
           ELSE conc' = [conc EXCEPT
                           !.th[g].index = (Len(conc.allocations) - 1) * stringbankSize + offset,
                           !.th[g].buf = [arr |-> conc.current.arr, off |-> offset,
                                          len |-> conc.current.len - offset],
                           !.th[g].pc = "writeLength"]
    /\ UNCHANGED <<bankVars, codec>>

\* The arrays with bytes stored at offset off of array arr.
ConcStore(arrays, arr, off, bytes) ==
    IF Len(bytes) = 0 THEN arrays
    ELSE [arrays EXCEPT ![arr] = WritePage(@, off, bytes)]

\* start := writeLength(l, buf)
ConcWriteLength(g) ==
    /\ ConcAt(g, "writeLength")
    /\ LET buf == conc.th[g].buf
           w   == writeLength(Len(conc.th[g].str), buf.len)
       IN  conc' = [conc EXCEPT !.arrays = ConcStore(@, buf.arr, buf.off, w.bytes),
                      !.th[g].start = w.n,
                      !.th[g].pc = IF w.panic THEN "panicked" ELSE "copy"]
    /\ UNCHANGED <<bankVars, codec>>

\* copy(buf[start:], tocopy); return offset
ConcCopy(g) ==
    /\ ConcAt(g, "copy")
    /\ LET buf   == conc.th[g].buf
           start == conc.th[g].start
       IN  conc' = [conc EXCEPT
                      !.arrays = ConcStore(@, buf.arr, buf.off + start,
                                           CopyBytes(buf.len - start, conc.th[g].str)),
                      !.th[g].pc = IF conc.mode = "locked" THEN "unlock" ELSE "done"]
    /\ UNCHANGED <<bankVars, codec>>

\* The caller releases the mutex.
ConcUnlock(g) ==
    /\ ConcAt(g, "unlock") /\ conc.lock = g
    /\ conc' = [conc EXCEPT !.lock = 0, !.th[g].pc = "done"]
    /\ UNCHANGED <<bankVars, codec>>

ConcNext ==
    \E g \in Goroutines :
        \/ ConcLock(g)
        \/ ConcCheck(g)
        \/ ConcMake(g)
        \/ ConcAppend(g)
        \/ ConcOffset(g)
        \/ ConcExtend(g)
        \/ ConcReturn(g)
        \/ ConcWriteLength(g)
        \/ ConcCopy(g)
        \/ ConcUnlock(g)

ConcSpec == ConcInit /\ [][ConcNext]_vars

\* Get(index) on the bank the goroutines share.
ConcGet(index) ==
    Get([current |-> NilSlice,
         allocations |-> [p \in 1..Len(conc.allocations) |-> conc.arrays[conc.allocations[p]]]],
        index)

---------------------------------------------------------------------------
(* Properties.                                                             *)

\* The strings the contract admits: len(s) <= stringbankSize - maxPrefixWidth,
\* the widest prefix being that of a page-sized length.
Admitted == {s \in Strings : Len(s) <= stringbankSize - spaceForLength(stringbankSize)}

\* Get(Save(s)) on the bank as it is now: the Save's result and the Get's.
SaveThenGet(s) ==
    IF variant = "heap"
    THEN LET r == Save(bank, s)
         IN  [save |-> r.result, get |-> Get(r.bank, r.index)]
    ELSE LET r == offheap_Save(bank, Live, s, "ok")
             live == IF r.grew THEN Append(Live, TRUE) ELSE Live
         IN  [save |-> r.result, get |-> offheap_Get(r.bank, live, r.index)]

\* C1: in every reachable state of either package's bank (every page of it
\* having come from an allocation that succeeded), and for every admitted
\* string s (the empty one included), Save(s) returns an index and a Get of
\* that index right away returns exactly s.
C1_RoundTrip ==
    (~crashed /\ \A p \in 1..Len(ids) : ids[p] # 0) =>
        \A s \in Admitted :
            LET x == SaveThenGet(s)
            IN  x.save = "ok" /\ x.get = GetResult("ok", s)

\* What Get returns for index h on a bank b of this variant whose pages are
\* all mappings.
GetOf(b, h) ==
    IF variant = "heap" THEN Get(b, h)
    ELSE offheap_Get(b, [p \in 1..Len(b.allocations) |-> TRUE], h)

AllLive == \A p \in 1..Len(ids) : Live[p]

\* C2: a later Save never changes what an index issued earlier resolves to:
\* if Get(h) returned the string saved under h before a Save, it returns it
\* after that Save too (no page of the bank having been released).
C2_HandleStability ==
    [][(Len(issued') = Len(issued) + 1 /\ AllLive)
        => \A i \in 1..Len(issued) :
             GetOf(bank, issued[i].index) = GetResult("ok", issued[i].str)
             => GetOf(bank', issued[i].index) = GetResult("ok", issued[i].str)]_vars

\* C3: the index a Save returns is non-negative and equals
\* pageIndex * stringbankSize + offset, pageIndex naming the last page, which
\* exists, and offset < stringbankSize being where the record's length prefix
\* stands.
C3_HandleShape ==
    (last.op = "Save" /\ last.result = "ok" /\ last.str \in Admitted) =>
        LET n      == Len(bank.allocations)
            offset == last.index - (n - 1) * stringbankSize
        IN  /\ last.index >= 0
            /\ n >= 1
            /\ offset >= 0 /\ offset < stringbankSize
            /\ LET rl == readLength(SubSeq(bank.allocations[n], offset + 1, stringbankSize))
               IN  ~rl.panic /\ ~rl.wide /\ rl.total = Len(last.str)

\* C4: Size() is the page count times stringbankSize, 0 for a new bank, and
\* exactly stringbankSize once the first Save, of any admitted string, has
\* returned its index.
C4_SizeAccounting ==
    LET size == IF variant = "heap" THEN Size(bank) ELSE offheap_Size(bank)
    IN  /\ size = Len(bank.allocations) * stringbankSize
        /\ nops = 0 => size = 0
        /\ (nops = 1 /\ last.op = "Save" /\ last.result = "ok" /\ last.str \in Admitted)
              => size = stringbankSize

\* C5: of two successive Saves with no Close between (and none failing), the
\* second returns the larger index; its page index is the first one's, or one
\* more exactly when the second Save added a page; and it is the last page.
C5_HandleOrdering ==
    [][(Len(issued') = Len(issued) + 1 /\ Len(issued) >= 1 /\ clean')
        => LET prev == issued[Len(issued)].index
               new  == issued'[Len(issued')].index
           IN  /\ new > prev
               /\ GoDiv(new, stringbankSize)
                    = GoDiv(prev, stringbankSize) + (IF last'.grew THEN 1 ELSE 0)
               /\ GoDiv(new, stringbankSize) = Len(bank'.allocations) - 1]_vars

\* C6: writing n into a zeroed buffer and reading it back returns n, and the
\* count read equals the count writeLength returned and spaceForLength(n).
C6_CodecRoundTrip ==
    codec.phase = "read" =>
        /\ codec.total = codec.n
        /\ codec.read = codec.written
        /\ codec.read = spaceForLength(codec.n)

\* ceil(bitlength(n) / 7), at least 1.
EncodedWidth(n) ==
    LET c == (BitsLen(n) + 6) \div 7 IN IF c < 1 THEN 1 ELSE c

\* C7: spaceForLength(n) = max(1, ceil(bitlength(n)/7)): 1 for 0,
\* non-decreasing, stepping at 127 -> 1, 128 -> 2, 16383 -> 2, 16384 -> 3.
C7_WidthFormula ==
    codec.phase = "new" =>
        /\ spaceForLength(codec.n) = EncodedWidth(codec.n)
        /\ codec.n = 0 => spaceForLength(codec.n) = 1
        /\ codec.n > 0 => spaceForLength(codec.n - 1) <= spaceForLength(codec.n)
        /\ codec.n = 127 => spaceForLength(codec.n) = 1
        /\ codec.n = 128 => spaceForLength(codec.n) = 2
        /\ codec.n = 16383 => spaceForLength(codec.n) = 2
        /\ codec.n = 16384 => spaceForLength(codec.n) = 3

\* A new offheap bank after saving strs in turn (every allocation succeeding):
\* the bank and the indices returned.
RECURSIVE FreshAfter(_)
FreshAfter(strs) ==
    IF Len(strs) = 0 THEN [bank |-> EmptyBank, indices |-> << >>]
    ELSE LET before == FreshAfter(SubSeq(strs, 1, Len(strs) - 1))
             b      == before.bank
             r      == offheap_Save(b, [p \in 1..Len(b.allocations) |-> TRUE],
                                    strs[Len(strs)], "ok")
         IN  [bank |-> r.bank, indices |-> Append(before.indices, r.index)]

\* C8: after a Close without error the offheap bank is a new one: no pages,
\* Size() 0, and the saves that follow return the indices and read back the
\* strings they would on a new bank.  A Close of an empty bank succeeds and
\* leaves it empty.
C8_PostCloseFresh ==
    (variant = "offheap" /\ ~crashed) =>
        /\ (last.op = "Close" /\ last.result = "ok") =>
              bank = EmptyBank /\ offheap_Size(bank) = 0
        /\ (last.op = "Close" /\ Len(last.freed) = 0) =>
              last.result = "ok" /\ bank = EmptyBank
        /\ clean =>
              LET f == FreshAfter([i \in 1..Len(issued) |-> issued[i].str])
              IN  /\ bank = f.bank
                  /\ f.indices = [i \in 1..Len(issued) |-> issued[i].index]
                  /\ \A i \in 1..Len(issued) :
                        offheap_Get(bank, Live, issued[i].index)
                            = GetResult("ok", issued[i].str)

\* Saves after a Close that released pages without error.
C8_Witness ==
    /\ variant = "offheap" /\ clean
    /\ Len(freeLog) >= 1 /\ \A i \in 1..Len(freeLog) : ~freeLog[i].err
    /\ last.op = "Save" /\ Len(issued) >= 2

\* C9: when the page allocation inside an offheap Save fails, the Save hands
\* that failure to its caller as an error.
C9_AllocFailureSurfaced ==
    (last.op = "Save" /\ last.failed) => last.result = "error"

\* C10: a Close in which a Free fails returns the error at once: Free was
\* called on the pages up to the failing one, once each and in order, and on
\* none after it, and current and allocations are as before the call; they
\* are cleared only by a Close whose every Free succeeded.
C10_CloseFailure ==
    [][(last'.op = "Close" /\ nops' = nops + 1) =>
         LET k     == Len(last'.freed)
             calls == SubSeq(freeLog', Len(freeLog) + 1, Len(freeLog'))
         IN  /\ Len(calls) = k /\ k <= Len(bank.allocations)
             /\ \A i \in 1..k : calls[i].id = ids[i]
             /\ last'.result = "error" =>
                   /\ bank' = bank /\ ids' = ids
                   /\ k >= 1 /\ calls[k].err
                   /\ \A i \in 1..(k - 1) : ~calls[i].err
             /\ last'.result = "ok" =>
                   /\ bank' = EmptyBank
                   /\ k = Len(bank.allocations)
                   /\ \A i \in 1..k : ~calls[i].err]_vars

\* A failed Close that stopped before the last page.
C10_Witness ==
    /\ last.op = "Close" /\ last.result = "error"
    /\ Len(bank.allocations) >= 2
    /\ Len(last.freed) < Len(bank.allocations)
    /\ bank.current.len > 0

\* Both goroutines' Saves have returned.
ConcBothDone == \A g \in Goroutines : conc.th[g].pc = "done"

\* The two Saves were handed one index, or a Get of an index does not return
\* the string saved under it.
ConcClash ==
    \/ conc.th[1].index = conc.th[2].index
    \/ \E g \in Goroutines : ConcGet(conc.th[g].index) # GetResult("ok", conc.th[g].str)

\* C11 (the unlocked half): some interleaving of two unlocked Saves, neither
\* of the empty string, ends in a clash.
C11_RaceClash ==
    /\ conc.mode = "race" /\ ConcBothDone /\ ConcClash
    /\ \A g \in Goroutines : Len(conc.th[g].str) > 0

\* C11: two Saves on one bank can clash when their steps interleave, and with
\* the two Saves serialized by a lock no clash is reachable.
C11_LockedSavesSafe ==
    (conc.mode = "locked" /\ ConcBothDone) => ~ConcClash

\* A record was written under issued[i]: its Save took bytes of the page.
Written(i) == issued[i].size > 0

C13_NoSpanning ==
    /\ bank.current.len <= stringbankSize
    /\ bank.current.len <= bank.current.cap
    /\ \A i \in 1..Len(issued) :
         LET p      == GoDiv(issued[i].index, stringbankSize)
             offset == GoMod(issued[i].index, stringbankSize)
             n      == Len(issued[i].str)
         IN  /\ offset >= 0
             /\ offset + issued[i].size <= stringbankSize
             /\ offset + EncodedWidth(n) + n <= stringbankSize
             /\ Written(i) =>
                  /\ p >= 0 /\ p < Len(bank.allocations)
                  /\ issued[i].size = EncodedWidth(n) + n

\* A record that did not fit in what was left of a page went to the next
\* page whole, the tail of the earlier page staying unused.
C13_Witness ==
    \E i \in 1..(Len(issued) - 1) :
        LET offset == GoMod(issued[i].index, stringbankSize)
            used   == offset + issued[i].size
        IN  /\ Written(i) /\ Written(i + 1)
            /\ used < stringbankSize
            /\ used + issued[i + 1].size > stringbankSize
            /\ issued[i + 1].index = (GoDiv(issued[i].index, stringbankSize) + 1) * stringbankSize

\* The bytes the record of a string of n bytes takes: prefix and payload.
RecordSize(n) == EncodedWidth(n) + n

\* C14: dense packing: every Save of s consumes exactly
\* encodedWidth(len(s)) + len(s) bytes of the current page, at least 1 even
\* for the empty string; two consecutive saves landing in one page return
\* indices that differ by the first record's size; and the byte ranges of two
\* distinct records never overlap.
C14_DensePacking ==
    /\ \A i \in 1..Len(issued) :
         /\ issued[i].size = RecordSize(Len(issued[i].str))
         /\ issued[i].size >= 1
    /\ \A i \in 1..(Len(issued) - 1) :
         GoDiv(issued[i].index, stringbankSize) = GoDiv(issued[i + 1].index, stringbankSize)
             => issued[i + 1].index - issued[i].index = RecordSize(Len(issued[i].str))
    /\ \A i, j \in 1..Len(issued) :
         i < j => \/ issued[i].index + RecordSize(Len(issued[i].str)) <= issued[j].index
                  \/ issued[j].index + RecordSize(Len(issued[j].str)) <= issued[i].index

\* A step that is a call of Save.
SaveStep == nops' = nops + 1 /\ last'.op = "Save"

\* C15: lazy page allocation: a Save (whose allocation, if any, succeeds)
\* adds exactly one page when the bank has no page or when the record does
\* not fit in what is left of the current page, and none otherwise (a record
\* that exactly fills the rest is placed without allocating); no step other
\* than a Save adds a page.
C15_LazyAllocation ==
    [][/\ (SaveStep /\ ~last'.failed) =>
            LET need  == RecordSize(Len(last'.str))
                fresh == Len(bank.allocations) = 0
                fits  == need <= bank.current.cap - bank.current.len
            IN  Len(bank'.allocations) - Len(bank.allocations)
                    = IF fresh \/ ~fits THEN 1 ELSE 0
       /\ ~SaveStep => Len(bank'.allocations) <= Len(bank.allocations)]_vars

\* C16: an oversized Save is all-or-nothing: a Save of a string whose record
\* is larger than stringbankSize returns no index and leaves the bank as it
\* was: page count, cursor and every byte of every page.
C16_OversizedAtomic ==
    [][(SaveStep /\ ~last'.failed /\ RecordSize(Len(last'.str)) > stringbankSize) =>
            /\ last'.result # "ok"
            /\ issued' = issued
            /\ bank' = bank]_vars

\* The heap-backed bank after saving strs in order into a new one, with the
\* indices and results the Saves returned.
RECURSIVE HeapAfter(_)
HeapAfter(strs) ==
    IF Len(strs) = 0 THEN [bank |-> EmptyBank, indices |-> << >>]
    ELSE LET before == HeapAfter(SubSeq(strs, 1, Len(strs) - 1))
             r      == Save(before.bank, strs[Len(strs)])
         IN  [bank |-> r.bank, indices |-> Append(before.indices, r.index)]

\* The strings saved so far, in order.
SavedStrings == [i \in 1..Len(issued) |-> issued[i].str]

\* C17: fed the same sequence of Save calls (admitted strings, the empty one
\* included, every allocation succeeding), the heap-backed and the offheap
\* Stringbank return the same indices, hold the same page bytes and report the
\* same Size().
C17_VariantsAgree ==
    LET heap    == HeapAfter(SavedStrings)
        offheap == FreshAfter(SavedStrings)
    IN  /\ heap.indices = offheap.indices
        /\ heap.bank.allocations = offheap.bank.allocations
        /\ heap.bank.current = offheap.bank.current
        /\ Size(heap.bank) = offheap_Size(offheap.bank)

\* The calls of Free on mapping id that succeeded.
Released(id) == {i \in 1..Len(freeLog) : freeLog[i].id = id /\ ~freeLog[i].err}

\* C18: no double release in the offheap package: over any sequence of Save
\* and Close calls, a Close that fails and is called again included, no page
\* is handed to Free again once a Free of it has succeeded, and after a Close
\* without error every page allocated so far has been released exactly once.
C18_NoDoubleRelease ==
    /\ \A i, j \in 1..Len(freeLog) :
         (i < j /\ freeLog[i].id = freeLog[j].id /\ freeLog[i].id # 0) => freeLog[i].err
    /\ (last.op = "Close" /\ last.result = "ok") =>
          \A id \in 1..nextId : Cardinality(Released(id)) = 1

\* n shifted right by 7 bits i times.
RECURSIVE Shr7(_, _)
Shr7(n, i) == IF i = 0 THEN n ELSE Shr7(n \div 128, i - 1)

\* C19: writeLength(n, buf) writes the 7-bit groups of n, least significant
\* first, from buf[0] on, with the high bit set on every byte written but the
\* last; it writes at least one byte (a single 0x00 for n = 0), leaves the
\* rest of buf as it was, and returns the number of bytes written, which is
\* spaceForLength(n).
C19_WireFormat ==
    codec.phase = "written" =>
        LET k == codec.written
        IN  /\ k >= 1
            /\ codec.n = 0 => (k = 1 /\ codec.buf[1] = 0)
            /\ \A i \in 1..k :
                 /\ codec.buf[i] % 128 = Shr7(codec.n, i - 1) % 128
                 /\ (codec.buf[i] >= 128) = (i < k)
            /\ Shr7(codec.n, k) = 0
            /\ \A i \in (k + 1)..Len(codec.buf) : codec.buf[i] = codec.fill
            /\ k = spaceForLength(codec.n)

====
